---------------------------- MODULE Spec2Model ----------------------------
(***************************************************************************)
(* A model of vite-font-unicode-range (src/lib/main.ts).  The file holds    *)
(* two variants of the plugin: the transform variant (lines 1-228), which   *)
(* rewrites stylesheet text, and the resolveId variant (lines 229-437),     *)
(* which fills the host's alias table.  Both share the pure helpers         *)
(* parseUnicodeRange, rangStr, getFileName, getTargetFormat and             *)
(* extractFontUrls.                                                         *)
(*                                                                         *)
(* Strings are sequences of one-character strings, so that splitting,       *)
(* regular-expression matching and replacement are computed character by    *)
(* character, as the code computes them.                                    *)
(***************************************************************************)
EXTENDS Integers, Sequences, FiniteSets, TLC

(***************************************************************************)
(* Bounds of the model.                                                     *)
(***************************************************************************)
\* transform / resolveId calls the host issues in one behaviour
MaxCalls == 2
\* hex digits per number in a generated unicode-range token
MaxHexLen == 2
\* characters in a generated unicode-range value
\* ranges in a generated argument of rangStr
\* small code points 0..MaxCode in a generated argument of rangStr
MaxCode == 2

(***************************************************************************)
(* Characters and strings.                                                  *)
(***************************************************************************)
LowerLetters ==
    <<"a", "b", "c", "d", "e", "f", "g", "h", "i", "j", "k", "l", "m",
      "n", "o", "p", "q", "r", "s", "t", "u", "v", "w", "x", "y", "z">>

UpperLetters ==
    <<"A", "B", "C", "D", "E", "F", "G", "H", "I", "J", "K", "L", "M",
      "N", "O", "P", "Q", "R", "S", "T", "U", "V", "W", "X", "Y", "Z">>

Digits == <<"0", "1", "2", "3", "4", "5", "6", "7", "8", "9">>

Range(f) == {f[i] : i \in DOMAIN f}

IndexOf(f, c) == CHOOSE i \in DOMAIN f : f[i] = c

IsLower(c) == c \in Range(LowerLetters)

IsDigit(c) == c \in Range(Digits)

IsSpace(c) == c = " "

\* String.prototype.toLowerCase, one character
LowerChar(c) ==
    IF c \in Range(UpperLetters) THEN LowerLetters[IndexOf(UpperLetters, c)] ELSE c

toLowerCase(s) == [i \in 1..Len(s) |-> LowerChar(s[i])]

\* the character class [0-9A-Fa-f]
IsHex(c) ==
    \/ IsDigit(c)
    \/ c \in {"a", "b", "c", "d", "e", "f"}
    \/ c \in {"A", "B", "C", "D", "E", "F"}

\* the character class [0-9A-Fa-f?]
IsHexOrQ(c) == IsHex(c) \/ c = "?"

HexVal(c) ==
    IF IsDigit(c) THEN IndexOf(Digits, c) - 1
    ELSE IndexOf(LowerLetters, LowerChar(c)) + 9

Includes(s, c) == \E i \in 1..Len(s) : s[i] = c

EndsWith(s, t) ==
    /\ Len(t) <= Len(s)
    /\ SubSeq(s, Len(s) - Len(t) + 1, Len(s)) = t

RECURSIVE TrimLeft(_)
TrimLeft(s) ==
    IF s # << >> /\ IsSpace(Head(s)) THEN TrimLeft(Tail(s)) ELSE s

RECURSIVE TrimRight(_)
TrimRight(s) ==
    IF s # << >> /\ IsSpace(s[Len(s)])
    THEN TrimRight(SubSeq(s, 1, Len(s) - 1))
    ELSE s

Trim(s) == TrimRight(TrimLeft(s))

\* s.split(c) for a one-character separator: always at least one part
RECURSIVE SplitAcc(_, _, _)
SplitAcc(s, c, cur) ==
    IF s = << >> THEN <<cur>>
    ELSE IF Head(s) = c THEN <<cur>> \o SplitAcc(Tail(s), c, << >>)
    ELSE SplitAcc(Tail(s), c, Append(cur, Head(s)))

Split(s, c) == SplitAcc(s, c, << >>)

\* s.split(/\s*,\s*/): the white space next to a comma belongs to the
\* separator; the white space at the two ends of s stays
SplitCommaWs(s) ==
    LET p == Split(s, ",")
        n == Len(p)
    IN  [i \in 1..n |->
            LET a == IF i > 1 THEN TrimLeft(p[i]) ELSE p[i]
            IN  IF i < n THEN TrimRight(a) ELSE a]

(***************************************************************************)
(* parseInt(s, 16) on a string of hex digits; NaN when it starts with none. *)
(***************************************************************************)
NaN == -1

RECURSIVE RunLen(_, _, _)
\* the length of the longest run of characters of class hexOnly/hexOrQ of s
\* that starts at position i
RunLen(s, i, withQ) ==
    IF i > Len(s) \/ ~(IF withQ THEN IsHexOrQ(s[i]) ELSE IsHex(s[i]))
    THEN 0
    ELSE 1 + RunLen(s, i + 1, withQ)

RECURSIVE HexNum(_)
HexNum(s) ==
    IF s = << >> THEN 0
    ELSE 16 * HexNum(SubSeq(s, 1, Len(s) - 1)) + HexVal(s[Len(s)])

parseInt16(s) ==
    LET n == RunLen(s, 1, FALSE)
    IN  IF n = 0 THEN NaN ELSE HexNum(SubSeq(s, 1, n))

\* s.replace(/\?/g, d)
ReplaceQ(s, d) == [i \in 1..Len(s) |-> IF s[i] = "?" THEN d ELSE s[i]]


(***************************************************************************)
(* parseUnicodeRange (main.ts 182-210, 390-418).                            *)
(***************************************************************************)
\* whether /U\+([class]+)/ matches s at position i
UPlusAt(s, i, withQ) ==
    /\ i + 2 <= Len(s)
    /\ s[i] = "U"
    /\ s[i + 1] = "+"
    /\ RunLen(s, i + 2, withQ) >= 1

\* part.match(/U\+([class]+)/)?.[1], << >> standing for no match
MatchUPlus(s, withQ) ==
    LET hits == {i \in 1..Len(s) : UPlusAt(s, i, withQ)}
    IN  IF hits = {} THEN << >>
        ELSE LET i == CHOOSE j \in hits : \A k \in hits : j <= k
             IN  SubSeq(s, i + 2, i + 1 + RunLen(s, i + 2, withQ))

\* whether /U\+([0-9A-Fa-f]+)-([0-9A-Fa-f]+)/ matches s at position i
URangeAt(s, i) ==
    /\ UPlusAt(s, i, FALSE)
    /\ LET r == RunLen(s, i + 2, FALSE)
       IN  /\ i + 2 + r <= Len(s)
           /\ s[i + 2 + r] = "-"
           /\ RunLen(s, i + 3 + r, FALSE) >= 1

\* part.match(/U\+([0-9A-Fa-f]+)-([0-9A-Fa-f]+)/): the two groups, or << >>
MatchURange(s) ==
    LET hits == {i \in 1..Len(s) : URangeAt(s, i)}
    IN  IF hits = {} THEN << >>
        ELSE LET i == CHOOSE j \in hits : \A k \in hits : j <= k
                 r == RunLen(s, i + 2, FALSE)
                 q == RunLen(s, i + 3 + r, FALSE)
             IN  << SubSeq(s, i + 2, i + 1 + r),
                    SubSeq(s, i + 3 + r, i + 2 + r + q) >>

\* the wildcard branch with both bounds taken from the "0" replacement
WildcardRanges_LowerOnly(part) ==
    LET prefix == MatchUPlus(part, TRUE)
    IN  << [start |-> parseInt16(ReplaceQ(prefix, "0")),
            end   |-> parseInt16(ReplaceQ(prefix, "0"))] >>

\* the wildcard branch (main.ts 189-193)
WildcardRanges(part) ==
    LET prefix == MatchUPlus(part, TRUE)
    IN  << [start |-> parseInt16(ReplaceQ(prefix, "0")),
            end   |-> parseInt16(ReplaceQ(prefix, "F"))] >>

\* the explicit-range branch (main.ts 194-201)
ExplicitRanges(part) ==
    LET match == MatchURange(part)
    IN  IF match = << >> THEN << >>
        ELSE << [start |-> parseInt16(match[1]),
                 end   |-> parseInt16(match[2])] >>

\* the single-code-point branch (main.ts 202-206)
SingleRanges(part) ==
    LET m == MatchUPlus(part, FALSE)
        codePoint == IF m = << >> THEN <<"0">> ELSE m
        value == parseInt16(codePoint)
    IN  << [start |-> value, end |-> value] >>

\* one iteration of the loop over parts: the ranges the part pushes
PartRanges(part) ==
    IF Includes(part, "?") THEN WildcardRanges(part)
    ELSE IF Includes(part, "-") THEN ExplicitRanges(part)
    ELSE SingleRanges(part)

RECURSIVE PushParts(_, _)
PushParts(parts, ranges) ==
    IF parts = << >> THEN ranges
    ELSE PushParts(Tail(parts), ranges \o PartRanges(Head(parts)))

parseUnicodeRange(rangeValue) == PushParts(SplitCommaWs(rangeValue), << >>)

(***************************************************************************)
(* rangStr (main.ts 151-159, 359-367): the text handed to subsetFont, as    *)
(* the sequence of its UTF-16 code units.                                   *)
(***************************************************************************)
\* for (let i = start; i < end; i++) v.push(i)
LoopPush(start, end) ==
    IF start = NaN \/ end = NaN THEN << >>
    ELSE [i \in 1..(end - start) |-> start + i - 1]

RECURSIVE PushAll(_)
PushAll(s) ==
    IF s = << >> THEN << >>
    ELSE LoopPush(Head(s).start, Head(s).end) \o PushAll(Tail(s))

\* [...new Set(v)]: the first occurrence of each value, in order
RECURSIVE Dedup(_, _)
Dedup(v, seen) ==
    IF v = << >> THEN << >>
    ELSE IF Head(v) \in seen THEN Dedup(Tail(v), seen)
    ELSE <<Head(v)>> \o Dedup(Tail(v), seen \cup {Head(v)})

\* String.fromCharCode keeps the low 16 bits of each number
fromCharCode(v) == [i \in 1..Len(v) |-> v[i] % 65536]

rangStr(s) == fromCharCode(Dedup(PushAll(s), {}))

(***************************************************************************)
(* getFileName, getTargetFormat, extractFontUrls, fontExtensions.           *)
(***************************************************************************)
\* a.split("/").pop() || ""
LastSegment(a) == LET p == Split(a, "/") IN p[Len(p)]

\* whether s matches [a-z]+\d? as a whole
IsExtLike(s) ==
    LET body == IF s # << >> /\ IsDigit(s[Len(s)])
                THEN SubSeq(s, 1, Len(s) - 1) ELSE s
    IN  /\ body # << >>
        /\ \A i \in 1..Len(body) : IsLower(body[i])

\* file.replace(/\..*?([a-z]+\d?)$/, ".$1"): from the first dot, the lazy
\* .*? stops at the longest suffix of the form [a-z]+\d?
getFileName(a) ==
    LET file == LastSegment(a)
        dots == {i \in 1..Len(file) : file[i] = "."}
    IN  IF dots = {} THEN file
        ELSE LET d == CHOOSE i \in dots : \A k \in dots : i <= k
                 sfx == {j \in (d + 1)..Len(file) : IsExtLike(SubSeq(file, j, Len(file)))}
             IN  IF sfx = {} THEN file
                 ELSE LET j == CHOOSE x \in sfx : \A y \in sfx : x <= y
                      IN  SubSeq(file, 1, d - 1) \o <<".">> \o SubSeq(file, j, Len(file))

\* path.extname(fileName).toLowerCase()
ExtName(fileName) ==
    LET base == LastSegment(fileName)
        dots == {i \in 1..Len(base) : base[i] = "."}
    IN  IF dots = {} THEN << >>
        ELSE LET d == CHOOSE i \in dots : \A k \in dots : i >= k
             IN  IF d = 1 THEN << >> ELSE toLowerCase(SubSeq(base, d, Len(base)))

getTargetFormat(fileName) ==
    LET ext == ExtName(fileName)
    IN  CASE ext = <<".", "w", "o", "f", "f">> -> "woff"
          [] ext = <<".", "w", "o", "f", "f", "2">> -> "woff2"
          [] ext = <<".", "s", "f", "n", "t">> -> "sfnt"
          [] ext = <<".", "t", "t", "f">> -> "truetype"
          [] OTHER -> "woff2"

\* fontExtensions = /\.(woff2?|ttf|eot|otf)$/i, fontExtensions.test(url)
fontExtensionsTest(url) ==
    LET u == toLowerCase(url)
    IN  \/ EndsWith(u, <<".", "w", "o", "f", "f">>)
        \/ EndsWith(u, <<".", "w", "o", "f", "f", "2">>)
        \/ EndsWith(u, <<".", "t", "t", "f">>)
        \/ EndsWith(u, <<".", "e", "o", "t">>)
        \/ EndsWith(u, <<".", "o", "t", "f">>)

\* src.split(",").map((a) => a.trim())
extractFontUrls(src) ==
    LET p == Split(src, ",") IN [i \in 1..Len(p) |-> Trim(p[i])]

(***************************************************************************)
(* The inline substitution of the transform variant (main.ts 130-134):      *)
(* code.replace(new RegExp(s, "g"), t) for every entry [s, t] of replaces,  *)
(* in insertion order.  The key is used as a regular expression: of the     *)
(* characters a font URL of this model holds, "." matches any character and *)
(* every other one matches itself.                                          *)
(***************************************************************************)
RegExpMatchesAt(text, i, pat) ==
    /\ i + Len(pat) - 1 <= Len(text)
    /\ \A j \in 1..Len(pat) : pat[j] = "." \/ pat[j] = text[i + j - 1]

RECURSIVE ReplaceAll(_, _, _)
ReplaceAll(text, pat, rep) ==
    IF text = << >> THEN << >>
    ELSE IF RegExpMatchesAt(text, 1, pat)
         THEN rep \o ReplaceAll(SubSeq(text, Len(pat) + 1, Len(text)), pat, rep)
         ELSE <<Head(text)>> \o ReplaceAll(Tail(text), pat, rep)

RECURSIVE ApplyReplaces(_, _)
ApplyReplaces(code, reps) ==
    IF reps = << >> THEN code
    ELSE ApplyReplaces(ReplaceAll(code, Head(reps)[1], Head(reps)[2]), Tail(reps))

\* Map.prototype.set on a map kept as the sequence of its entries
MapSet(m, k, v) ==
    IF \E i \in 1..Len(m) : m[i][1] = k
    THEN [i \in 1..Len(m) |-> IF m[i][1] = k THEN <<k, v>> ELSE m[i]]
    ELSE Append(m, <<k, v>>)

MapHas(m, k) == \E i \in 1..Len(m) : m[i][1] = k

MapGet(m, k) == m[CHOOSE i \in 1..Len(m) : m[i][1] = k][2]

MapKeys(m) == {m[i][1] : i \in 1..Len(m)}

(***************************************************************************)
(* The host and the stylesheets of the build.                               *)
(***************************************************************************)
\* c.cacheDir
CacheDirPath == <<"/", "c">>

UrlF == <<"a", "/", "f", ".", "w", "o", "f", "f">>
\* another copy of the same font: getFileName gives f.woff for both
UrlFx == <<"b", "/", "f", ".", "x", ".", "w", "o", "f", "f">>
UrlG == <<".", "/", "g", ".", "t", "t", "f">>
\* a font file subsetFont rejects
UrlBad == <<"b", "a", "d", ".", "o", "t", "f">>
\* a damaged copy of the font f.woff: subsetFont rejects it as well
UrlBadF == <<"x", "/", "f", ".", "w", "o", "f", "f">>
\* a URL the host cannot resolve
UrlGone == <<"n", ".", "e", "o", "t">>
\* not a font
UrlSvg == <<"h", ".", "s", "v", "g">>

Comma == <<",">>

Family == <<"F">>

\* the value of an absent declaration (getDeclarationValue gives null)
Null == << >>

SheetA ==
    [id    |-> <<"a", ".", "c", "s", "s">>,
     rules |-> << [fontFamily |-> Family, src |-> UrlF \o <<" ">> \o Comma \o <<" ">> \o UrlSvg,
                   unicodeRange |-> <<"U", "+", "1", "-", "2">>] >>]

SheetB ==
    [id    |-> <<"b", ".", "c", "s", "s">>,
     rules |-> << [fontFamily |-> Family, src |-> UrlF,
                   unicodeRange |-> <<"U", "+", "1", "-", "3", " ", ",", " ", "U", "+", "5">>],
                  [fontFamily |-> Family, src |-> UrlFx,
                   unicodeRange |-> <<"U", "+", "2", "-", "3">>] >>]

SheetC ==
    [id    |-> <<"c", ".", "c", "s", "s">>,
     rules |-> << [fontFamily |-> Family, src |-> UrlBad,
                   unicodeRange |-> <<"U", "+", "1", "-", "2">>],
                  [fontFamily |-> Family, src |-> UrlG,
                   unicodeRange |-> <<"U", "+", "1", "-", "2">>],
                  [fontFamily |-> Family, src |-> UrlF, unicodeRange |-> Null] >>]

SheetD ==
    [id    |-> <<"n", "o", "d", "e", "_", "m", "o", "d", "u", "l", "e", "s",
                 "/", "d", ".", "c", "s", "s">>,
     rules |-> << [fontFamily |-> Family, src |-> UrlF,
                   unicodeRange |-> <<"U", "+", "1", "-", "2">>] >>]

SheetE ==
    [id    |-> <<"e", ".", "c", "s", "s">>,
     rules |-> << [fontFamily |-> Family, src |-> UrlGone,
                   unicodeRange |-> <<"U", "+", "1", "-", "2">>],
                  [fontFamily |-> Family, src |-> UrlG,
                   unicodeRange |-> <<"U", "+", "1", "-", "5">>] >>]

SheetF ==
    [id    |-> <<"f", ".", "c", "s", "s">>,
     rules |-> << [fontFamily |-> Family, src |-> UrlBadF,
                   unicodeRange |-> <<"U", "+", "1", "-", "2">>] >>]

Sheets == {SheetA, SheetB, SheetC, SheetD, SheetE}

\* the stylesheets of a build of the alias variant
AliasSheets == {SheetA, SheetB, SheetC, SheetD, SheetF}

\* the stylesheet's text: css-tree's parse gives back the rules
RECURSIVE RenderRules(_)
RenderRules(rules) ==
    IF rules = << >> THEN << >>
    ELSE <<"{">> \o Head(rules).src \o <<";">> \o Head(rules).unicodeRange \o <<"}">>
         \o RenderRules(Tail(rules))

CodeOf(sheet) == RenderRules(sheet.rules)

\* this.resolve(url): the id of the resolved file, Null when there is none
Resolve(url) == IF url = UrlGone THEN Null ELSE <<"/">> \o url

\* (await fs.promises.readFile(res.id)).length
FontLen(id) == IF id = Resolve(UrlG) THEN 4 ELSE 3

\* whether subsetFont rejects the font
Corrupt(id) == id \in {Resolve(UrlBad), Resolve(UrlBadF)}

\* subsetFont(fontData, text, {targetFormat}): the subset, and its length
subsetFont(id, text, targetFormat) ==
    [font |-> id, text |-> text, targetFormat |-> targetFormat]

DataLen(data) == 1 + Len(data.text)

Contains(s, sub) ==
    \E i \in 1..(Len(s) - Len(sub) + 1) : SubSeq(s, i, i + Len(sub) - 1) = sub

\* createFilter(include, exclude) with the default include
cssFilter(id) ==
    \E e \in { <<"c", "s", "s">>, <<"s", "c", "s", "s">>, <<"s", "a", "s", "s">>,
               <<"l", "e", "s", "s">>, <<"s", "t", "y", "l">>,
               <<"s", "t", "y", "l", "u", "s">> } : EndsWith(id, <<".">> \o e)

\* !cssFilter(id) || /node_modules/.test(id)
Filtered(id) ==
    \/ ~cssFilter(id)
    \/ Contains(id, <<"n", "o", "d", "e", "_", "m", "o", "d", "u", "l", "e", "s">>)

(***************************************************************************)
(* The font tasks of a stylesheet: one per src URL of every @font-face rule *)
(* that has its three declarations and at least one parsed range, the URLs  *)
(* that are no font files left out (main.ts 66-76, 291-301).                *)
(***************************************************************************)
RECURSIVE UrlTasks(_, _)
UrlTasks(urls, ranges) ==
    IF urls = << >> THEN << >>
    ELSE (IF fontExtensionsTest(Head(urls))
          THEN << [url |-> Head(urls), ranges |-> ranges] >>
          ELSE << >>)
         \o UrlTasks(Tail(urls), ranges)

RuleTasks(rule) ==
    IF rule.fontFamily = Null \/ rule.src = Null \/ rule.unicodeRange = Null
    THEN << >>
    ELSE LET ranges == parseUnicodeRange(rule.unicodeRange)
         IN  IF Len(ranges) = 0 THEN << >>
             ELSE UrlTasks(extractFontUrls(rule.src), ranges)

RECURSIVE RulesTasks(_)
RulesTasks(rules) ==
    IF rules = << >> THEN << >>
    ELSE RuleTasks(Head(rules)) \o RulesTasks(Tail(rules))

TasksOf(sheet) == RulesTasks(sheet.rules)

\* what a task hands to subsetFont (main.ts 88-97, 308-316)
SubsetArgs(t) ==
    LET id == Resolve(t.url)
    IN  [id |-> id, text |-> rangStr(t.ranges), targetFormat |-> getTargetFormat(id)]

\* one task with what the code derives from its URL and ranges
TaskInfo(t) ==
    [url |-> t.url, name |-> getFileName(t.url), args |-> SubsetArgs(t)]

\* the stylesheets of the build by id: the text of each and its tasks
BuildOf(sheets) ==
    [id \in {s.id : s \in sheets} |->
        LET sheet == CHOOSE s \in sheets : s.id = id
            ts == TasksOf(sheet)
        IN  [code |-> CodeOf(sheet),
             tasks |-> [k \in 1..Len(ts) |-> TaskInfo(ts[k])]]]

(***************************************************************************)
(* State.                                                                   *)
(***************************************************************************)
VARIABLES
    mode,          \* which part of the file runs: "transform", "alias", "pure"
    assetCache,    \* transform variant, module level: Map url -> EmittedAsset
    replaces,      \* transform variant, module level: Map url -> fileName
    results,       \* module level: the report list
    fontSet,       \* transform variant, plugin instance: Set of names
    fontMap,       \* alias variant, plugin instance: Map name -> fileName
    alias,         \* alias variant: the host's alias table, c.resolve.alias
    resolvedCss,   \* alias variant, plugin instance: Set of ids
    emitted,       \* host: the assets handed to this.emitFile
    files,         \* host: the files written under cacheDir
    cacheDirExists,\* host: fs.existsSync(cacheDir)
    callPc,        \* per call of transform / resolveId: where it stands
    callId,        \* per call: the id it was called with
    tasks,         \* per call: its font tasks, each with its position
    changed,       \* per call of transform: the local flag
    output,        \* per call: << >> for undefined, <<code>> for {code}
    build,         \* the stylesheets of the build (BuildOf), fixed by Init
    pin,           \* the argument of the pure function under check
    pout           \* << >> before the call, <<result>> after it

vars ==
    << mode, assetCache, replaces, results, fontSet, fontMap, alias, resolvedCss,
       emitted, files, cacheDirExists, callPc, callId, tasks, changed, output,
       build, pin, pout >>

moduleVars == << assetCache, replaces, results, fontSet, emitted >>

aliasVars == << fontMap, alias, resolvedCss, files, cacheDirExists >>

pureVars == << build, pin, pout >>

Calls == 1..MaxCalls

\* the calls start in the order of their numbers
NextCall(c) ==
    /\ callPc[c] = "idle"
    /\ \A d \in Calls : d < c => callPc[d] # "idle"

\* a task's position, and whether it has called subsetFont
NewTask(pc) == [pc |-> pc, invoked |-> FALSE]

SetPc(c, k, pc) == [tasks EXCEPT ![c][k].pc = pc]

\* the tasks of the calls made so far, as pairs <<call, index>>
AllTasks == UNION {{<<c, k>> : k \in DOMAIN tasks[c]} : c \in Calls}

Decl(ck) == build[callId[ck[1]]].tasks[ck[2]]

Args(ck) == Decl(ck).args

Name(ck) == Decl(ck).name

Pc(ck) == tasks[ck[1]][ck[2]].pc

Invoked(ck) == tasks[ck[1]][ck[2]].invoked

Failed(c) == \E k \in 1..Len(tasks[c]) : tasks[c][k].pc = "failed"

AllDone(c) == \A k \in 1..Len(tasks[c]) : tasks[c][k].pc = "done"

CallsInit ==
    /\ callPc = [c \in Calls |-> "idle"]
    /\ callId = [c \in Calls |-> Null]
    /\ tasks = [c \in Calls |-> << >>]
    /\ changed = [c \in Calls |-> FALSE]
    /\ output = [c \in Calls |-> << >>]

(***************************************************************************)
(* The transform variant (main.ts 59-139).                                  *)
(***************************************************************************)
\* `${cacheDir}/font-subset/${name}` (main.ts 100)
TransformFileName(name) ==
    CacheDirPath
    \o <<"/", "f", "o", "n", "t", "-", "s", "u", "b", "s", "e", "t", "/">>
    \o name

\* main.ts 60-61, and for every src URL the code up to the first await:
\* 76-79 on a miss of assetCache, 77 and 122-124 on a hit
TransformCall(c, id) ==
    /\ mode = "transform"
    /\ NextCall(c)
    /\ callId' = [callId EXCEPT ![c] = id]
    /\ IF (id # Null /\ Filtered(id)) \/ build[id].code = << >>
       THEN /\ callPc' = [callPc EXCEPT ![c] = "returned"]
            /\ UNCHANGED << tasks, changed >>
       ELSE LET ts == build[id].tasks
                hit(t) == MapHas(assetCache, t.url)
            IN  /\ callPc' = [callPc EXCEPT ![c] = "running"]
                /\ tasks' = [tasks EXCEPT ![c] =
                       [k \in 1..Len(ts) |->
                           NewTask(IF hit(ts[k]) THEN "done" ELSE "resolve")]]
                /\ changed' = [changed EXCEPT ![c] =
                       \E k \in 1..Len(ts) :
                           /\ hit(ts[k])
                           /\ MapGet(assetCache, ts[k].url).fileName # Null]
    /\ UNCHANGED << mode, moduleVars, aliasVars, output, pureVars >>

\* TransformResolved without the check of fontSet
TransformResolved_NoFontSet(c, k) ==
    /\ mode = "transform"
    /\ tasks[c][k].pc = "resolve"
    /\ LET res == Resolve(Decl(<<c, k>>).url)
           name == Name(<<c, k>>)
       IN  IF res = Null
           THEN /\ tasks' = SetPc(c, k, "done")
                /\ UNCHANGED fontSet
           ELSE /\ fontSet' = fontSet \cup {name}
                /\ tasks' = [tasks EXCEPT ![c][k] =
                       [pc |-> "subset", invoked |-> TRUE]]
    /\ UNCHANGED << mode, assetCache, replaces, results, emitted, aliasVars,
                    callPc, callId, changed, output, pureVars >>

\* main.ts 79-97: this.resolve(url) has answered; on a new name readFile is
\* awaited (an await that reads and writes no shared state) and subsetFont is
\* called
TransformResolved(c, k) ==
    /\ mode = "transform"
    /\ tasks[c][k].pc = "resolve"
    /\ LET res == Resolve(Decl(<<c, k>>).url)
           name == Name(<<c, k>>)
       IN  IF res = Null \/ name \in fontSet
           THEN /\ tasks' = SetPc(c, k, "done")
                /\ UNCHANGED fontSet
           ELSE /\ fontSet' = fontSet \cup {name}
                /\ tasks' = [tasks EXCEPT ![c][k] =
                       [pc |-> "subset", invoked |-> TRUE]]
    /\ UNCHANGED << mode, assetCache, replaces, results, emitted, aliasVars,
                    callPc, callId, changed, output, pureVars >>

\* the size gate with <= in place of <
Accepted_OrEqual(after, before) == after <= before

\* info.after < info.before (main.ts 108)
Accepted(after, before) == after < before

\* main.ts 98-124: subsetFont has answered
TransformSubset(c, k) ==
    /\ mode = "transform"
    /\ tasks[c][k].pc = "subset"
    /\ LET t == Decl(<<c, k>>)
           a == Args(<<c, k>>)
       IN  IF Corrupt(a.id)
           THEN /\ tasks' = SetPc(c, k, "failed")
                /\ UNCHANGED << assetCache, replaces, results, emitted, changed >>
           ELSE LET data == subsetFont(a.id, a.text, a.targetFormat)
                    before == FontLen(a.id)
                    after == DataLen(data)
                    name == Name(<<c, k>>)
                    fileName == TransformFileName(name)
                    ok == Accepted(after, before)
                IN  /\ tasks' = SetPc(c, k, "done")
                    /\ replaces' = IF ok THEN MapSet(replaces, t.url, fileName)
                                   ELSE replaces
                    /\ results' = IF ok
                                  THEN Append(results, [fileName |-> name,
                                           before |-> before, after |-> after])
                                  ELSE results
                    /\ emitted' = IF ok
                                  THEN emitted \cup {[name |-> name,
                                           fileName |-> fileName, source |-> data]}
                                  ELSE emitted
                    /\ assetCache' = MapSet(assetCache, t.url,
                           [name |-> name, source |-> data,
                            fileName |-> IF ok THEN fileName ELSE Null])
                    /\ changed' = [changed EXCEPT ![c] = @ \/ ok]
    /\ UNCHANGED << mode, fontSet, aliasVars, callPc, callId, output, pureVars >>

\* main.ts 130-138: Promise.all has settled: resolved when every task is
\* done, rejected as soon as one task has failed
TransformReturn(c) ==
    /\ mode = "transform"
    /\ callPc[c] = "running"
    /\ Failed(c) \/ AllDone(c)
    /\ callPc' = [callPc EXCEPT ![c] = "returned"]
    /\ output' = [output EXCEPT ![c] =
           IF ~Failed(c) /\ changed[c]
           THEN << ApplyReplaces(build[callId[c]].code, replaces) >>
           ELSE << >>]
    /\ UNCHANGED << mode, moduleVars, aliasVars, callId, tasks, changed, pureVars >>

TransformInit ==
    /\ mode = "transform"
    /\ assetCache = << >>
    /\ replaces = << >>
    /\ results = << >>
    /\ fontSet = {}
    /\ emitted = {}
    /\ fontMap = << >>
    /\ alias = << >>
    /\ resolvedCss = {}
    /\ files = << >>
    /\ cacheDirExists = FALSE
    /\ CallsInit
    /\ build = BuildOf(Sheets)
    /\ pin = << >>
    /\ pout = << >>

TransformNext ==
    \/ \E c \in Calls, id \in DOMAIN build : TransformCall(c, id)
    \/ \E c \in Calls : \E k \in DOMAIN tasks[c] : TransformResolved(c, k)
    \/ \E c \in Calls : \E k \in DOMAIN tasks[c] : TransformSubset(c, k)
    \/ \E c \in Calls : TransformReturn(c)

Spec == TransformInit /\ [][TransformNext]_vars

(***************************************************************************)
(* The resolveId (alias) variant (main.ts 280-347).                         *)
(***************************************************************************)
\* `${cacheDir}/subset-${name}` (main.ts 321)
AliasFileName(name) ==
    CacheDirPath \o <<"/", "s", "u", "b", "s", "e", "t", "-">> \o name

\* alias.find((a) => a.find === url)
AliasFind(url) == \E i \in 1..Len(alias) : alias[i].find = url

\* main.ts 281-284
ResolveIdCall(c, id) ==
    /\ mode = "alias"
    /\ NextCall(c)
    /\ callId' = [callId EXCEPT ![c] = id]
    /\ IF id \in resolvedCss \/ Filtered(id)
       THEN /\ callPc' = [callPc EXCEPT ![c] = "returned"]
            /\ UNCHANGED resolvedCss
       ELSE /\ callPc' = [callPc EXCEPT ![c] = "readCss"]
            /\ resolvedCss' = resolvedCss \cup {id}
    /\ UNCHANGED << mode, moduleVars, fontMap, alias, files, cacheDirExists,
                    tasks, changed, output, pureVars >>

\* main.ts 284-303: this.resolve(id) and then readFile have answered (two
\* awaits in a row with no access to shared state between them; the
\* stylesheets of the build all resolve); the stylesheet is parsed, and every
\* src URL runs up to its first await
ResolveIdRead(c) ==
    /\ mode = "alias"
    /\ callPc[c] = "readCss"
    /\ callPc' = [callPc EXCEPT ![c] = "running"]
    /\ LET ts == build[callId[c]].tasks
       IN  tasks' = [tasks EXCEPT ![c] =
               [k \in 1..Len(ts) |->
                   NewTask(IF AliasFind(ts[k].url) THEN "done" ELSE "resolve")]]
    /\ UNCHANGED << mode, moduleVars, aliasVars, callId, changed, output, pureVars >>

\* alias.push({find: url, replacement}) (main.ts 334-337)
AliasPush(url, replacement) ==
    Append(alias, [find |-> url, replacement |-> replacement])

\* main.ts 303-316 and 334: this.resolve(url) has answered; on a miss of
\* fontMap readFile is awaited (an await that reads and writes no shared
\* state) and subsetFont is called
AliasResolved(c, k) ==
    /\ mode = "alias"
    /\ tasks[c][k].pc = "resolve"
    /\ LET url == Decl(<<c, k>>).url
           res == Resolve(url)
           name == Name(<<c, k>>)
       IN  IF res = Null
           THEN /\ tasks' = SetPc(c, k, "done")
                /\ UNCHANGED alias
           ELSE IF MapHas(fontMap, name)
           THEN /\ tasks' = SetPc(c, k, "done")
                /\ alias' = AliasPush(url, MapGet(fontMap, name))
           ELSE /\ tasks' = [tasks EXCEPT ![c][k] =
                       [pc |-> "subset", invoked |-> TRUE]]
                /\ UNCHANGED alias
    /\ UNCHANGED << mode, moduleVars, fontMap, resolvedCss, files, cacheDirExists,
                    callPc, callId, changed, output, pureVars >>

\* optimizedFontData.length < fontData.length (main.ts 322)
AliasAccepted(after, before) == after < before

\* main.ts 321-324 and 332: the size gate; writeFile is called for an
\* accepted subset, and a rejected one ends the task with 'skip'
AfterGate(c, k) ==
    LET a == Args(<<c, k>>)
        data == subsetFont(a.id, a.text, a.targetFormat)
    IN  IF AliasAccepted(DataLen(data), FontLen(a.id)) THEN "write" ELSE "done"

\* main.ts 317-320: subsetFont has answered; mkdir is called when cacheDir
\* does not exist
AliasSubset(c, k) ==
    /\ mode = "alias"
    /\ tasks[c][k].pc = "subset"
    /\ tasks' = SetPc(c, k,
           IF Corrupt(Args(<<c, k>>).id) THEN "failed"
           ELSE IF ~cacheDirExists THEN "mkdir"
           ELSE AfterGate(c, k))
    /\ UNCHANGED << mode, moduleVars, aliasVars, callPc, callId, changed, output,
                    pureVars >>

\* main.ts 319: mkdir has answered: it fails when the directory exists by now
AliasMkdir(c, k) ==
    /\ mode = "alias"
    /\ tasks[c][k].pc = "mkdir"
    /\ IF cacheDirExists
       THEN /\ tasks' = SetPc(c, k, "failed")
            /\ UNCHANGED cacheDirExists
       ELSE /\ tasks' = SetPc(c, k, AfterGate(c, k))
            /\ cacheDirExists' = TRUE
    /\ UNCHANGED << mode, moduleVars, fontMap, alias, resolvedCss, files,
                    callPc, callId, changed, output, pureVars >>

\* main.ts 324-337: writeFile has answered
AliasWrite(c, k) ==
    /\ mode = "alias"
    /\ tasks[c][k].pc = "write"
    /\ LET a == Args(<<c, k>>)
           data == subsetFont(a.id, a.text, a.targetFormat)
           name == Name(<<c, k>>)
           fileName == AliasFileName(name)
       IN  /\ files' = MapSet(files, fileName, data)
           /\ fontMap' = MapSet(fontMap, name, fileName)
           /\ results' = Append(results, [fileName |-> name,
                             before |-> FontLen(a.id), after |-> DataLen(data)])
           /\ alias' = AliasPush(Decl(<<c, k>>).url, fileName)
    /\ tasks' = SetPc(c, k, "done")
    /\ UNCHANGED << mode, assetCache, replaces, fontSet, emitted, resolvedCss,
                    cacheDirExists, callPc, callId, changed, output, pureVars >>

\* main.ts 290-347: Promise.all has settled; resolveId gives undefined
ResolveIdReturn(c) ==
    /\ mode = "alias"
    /\ callPc[c] = "running"
    /\ Failed(c) \/ AllDone(c)
    /\ callPc' = [callPc EXCEPT ![c] = "returned"]
    /\ UNCHANGED << mode, moduleVars, aliasVars, callId, tasks, changed, output,
                    pureVars >>

AliasInit ==
    /\ mode = "alias"
    /\ assetCache = << >>
    /\ replaces = << >>
    /\ results = << >>
    /\ fontSet = {}
    /\ emitted = {}
    /\ fontMap = << >>
    /\ alias = << >>
    /\ resolvedCss = {}
    /\ files = << >>
    /\ cacheDirExists \in BOOLEAN
    /\ CallsInit
    /\ build = BuildOf(AliasSheets)
    /\ pin = << >>
    /\ pout = << >>

AliasNext ==
    \/ \E c \in Calls, id \in DOMAIN build : ResolveIdCall(c, id)
    \/ \E c \in Calls : ResolveIdRead(c)
    \/ \E c \in Calls : \E k \in DOMAIN tasks[c] : AliasResolved(c, k)
    \/ \E c \in Calls : \E k \in DOMAIN tasks[c] : AliasSubset(c, k)
    \/ \E c \in Calls : \E k \in DOMAIN tasks[c] : AliasMkdir(c, k)
    \/ \E c \in Calls : \E k \in DOMAIN tasks[c] : AliasWrite(c, k)
    \/ \E c \in Calls : ResolveIdReturn(c)

AliasSpec == AliasInit /\ [][AliasNext]_vars

(***************************************************************************)
(* The two variants side by side: a build runs one of them.                *)
(***************************************************************************)
BothInit == TransformInit \/ AliasInit

BothNext == TransformNext \/ AliasNext

BothSpec == BothInit /\ [][BothNext]_vars

(***************************************************************************)
(* The pure helpers under check: parseUnicodeRange (main.ts 182-210) and   *)
(* rangStr (main.ts 151-159), each applied to one argument.                *)
(***************************************************************************)
HexDigits == {"0", "a", "F"}

\* the hex numerals of 1..n digits
HexStrings(n) == UNION {[1..k -> HexDigits] : k \in 1..n}

\* 1..n question marks
Marks(n) == {[i \in 1..k |-> "?"] : k \in 1..n}

Token(kind, a, b) == [kind |-> kind, a |-> a, b |-> b]

\* U+a
SingleTokens(n) == {Token("single", a, << >>) : a \in HexStrings(n)}

\* U+a-b
RangeTokens(n) == {Token("range", a, b) : a, b \in HexStrings(n)}

\* U+a?? : hex digits followed by question marks, n characters at most
WildcardTokens(n) ==
    {t \in {Token("wildcard", a, q) :
                a \in HexStrings(n) \cup {<< >>}, q \in Marks(n)} :
        Len(t.a) + Len(t.b) <= n}

\* tokens of none of the three forms
BadTexts ==
    { <<"x", "y", "z">>, << >>, <<"?">>, <<"3", "-", "a">>, <<"u", "+", "3">>,
      <<"U", "+">> }

BadTokens == {Token("bad", t, << >>) : t \in BadTexts}

TokensOf(n) ==
    SingleTokens(n) \cup RangeTokens(n) \cup WildcardTokens(n) \cup BadTokens

\* the token as it is written in the stylesheet
TokenText(t) ==
    CASE t.kind = "single" -> <<"U", "+">> \o t.a
      [] t.kind = "range" -> <<"U", "+">> \o t.a \o <<"-">> \o t.b
      [] t.kind = "wildcard" -> <<"U", "+">> \o t.a \o t.b
      [] OTHER -> t.a

Separators == { <<",">>, <<" ", ",", " ">> }

\* values of one token, and of two tokens around a comma
ParseInputs ==
    {[fn |-> "parseUnicodeRange", toks |-> <<t>>, sep |-> << >>, s |-> << >>] :
        t \in TokensOf(MaxHexLen)}
    \cup
    {[fn |-> "parseUnicodeRange", toks |-> <<t, u>>, sep |-> sep, s |-> << >>] :
        t \in TokensOf(MaxHexLen), u \in TokensOf(1), sep \in Separators}

\* the unicode-range value of a parse input
RangeValue(p) ==
    IF Len(p.toks) = 1 THEN TokenText(p.toks[1])
    ELSE TokenText(p.toks[1]) \o p.sep \o TokenText(p.toks[2])

\* code points around zero and around the 16-bit boundary
CodePoints == (0..MaxCode) \cup {65535, 65536, 65537}

\* the ranges parseUnicodeRange can give, of MaxCode + 1 code points at most
RangeArgs ==
    {r \in [start : CodePoints, end : CodePoints] : r.end - r.start <= MaxCode + 1}
    \cup {[start |-> NaN, end |-> NaN]}

\* lists of no, one and two ranges
RangStrInputs ==
    {[fn |-> "rangStr", toks |-> << >>, sep |-> << >>, s |-> s] :
        s \in {<< >>} \cup {<<r>> : r \in RangeArgs}
              \cup {<<r, q>> : r, q \in RangeArgs}}

\* src URLs as directory prefix, base name, hash segment, extension and
\* trailing query string or fragment
FileNameInputs ==
    {[fn |-> "getFileName", toks |-> << >>, sep |-> << >>,
      s |-> <<dir, base, hash, ext, tail>>] :
        dir \in { << >>, <<"a", "/">>, <<"/", "x", ".", "y", "/">> },
        base \in { <<"f">>, <<"m", "-", "f">> },
        hash \in { << >>, <<".", "3", "f", "a", "9">>, <<".", "x", "1", "2">> },
        ext \in { <<"w", "o", "f", "f">>, <<"w", "o", "f", "f", "2">>,
                  <<"t", "t", "f">>, <<"e", "o", "t">> },
        tail \in { << >>, <<"?", "v", "=", "1">>, <<"#", "x">>,
                   <<"?", "#", "i", "e", "f", "i", "x">> }}

\* the URL of a getFileName input
UrlOf(p) == p.s[1] \o p.s[2] \o p.s[3] \o <<".">> \o p.s[4] \o p.s[5]

\* ids of resolved files as directory, base name and extension
TargetFormatInputs ==
    {[fn |-> "getTargetFormat", toks |-> << >>, sep |-> << >>,
      s |-> <<dir, base, ext>>] :
        dir \in { <<"/">>, <<"/", "x", ".", "y", "/">> },
        base \in { <<"f">>, <<"f", ".", "m", "i", "n">> },
        ext \in { << >>, <<".", "w", "o", "f", "f">>, <<".", "w", "o", "f", "f", "2">>,
                  <<".", "t", "t", "f">>, <<".", "o", "t", "f">>, <<".", "e", "o", "t">>,
                  <<".", "s", "f", "n", "t">>, <<".", "s", "v", "g">>,
                  <<".", "W", "O", "F", "F">>, <<".", "T", "t", "f">>,
                  <<".", "O", "T", "F">> }}

\* the file name of a getTargetFormat input
FileOf(p) == p.s[1] \o p.s[2] \o p.s[3]

\* a font one directory up: its URL contains UrlG
UrlUp == <<".">> \o UrlG

\* the src URLs of the stylesheets a rewrite is applied to
RewriteUrls == {UrlF, UrlFx, UrlG, UrlUp}

\* the entry replaces.set(url, fileName) adds (main.ts 100, 109)
ReplacesEntry(url) == <<url, TransformFileName(getFileName(url))>>

\* replaces tables of no, one and two entries in each order of insertion;
\* fontSet admits one URL per name
ReplacesTables ==
    {<< >>} \cup {<<ReplacesEntry(u)>> : u \in RewriteUrls}
    \cup UNION {{<<ReplacesEntry(u), ReplacesEntry(v)>> :
                    v \in {w \in RewriteUrls :
                              getFileName(w) # getFileName(u)}} :
                u \in RewriteUrls}

\* a replaces table, a stylesheet of one @font-face rule with one or two
\* src URLs, and two unused places
RewriteInputs ==
    {[fn |-> "rewrite", toks |-> << >>, sep |-> << >>,
      s |-> <<reps, urls, << >>, << >> >>] :
        reps \in ReplacesTables,
        urls \in {<<u>> : u \in RewriteUrls}
                 \cup {<<u, v>> : u, v \in RewriteUrls}}

\* the src value of the rule, as getDeclarationValue joins it
SrcOf(urls) ==
    IF Len(urls) = 1 THEN urls[1]
    ELSE urls[1] \o <<" ">> \o Comma \o <<" ">> \o urls[2]

\* the text of the stylesheet with these src URLs
RewriteText(urls) ==
    RenderRules(<< [fontFamily |-> Family, src |-> SrcOf(urls),
                    unicodeRange |-> <<"U", "+", "1">>] >>)

\* main.ts 130-134: the loop over replaces
RewriteCall ==
    /\ mode = "pure"
    /\ pin.fn = "rewrite"
    /\ pout = << >>
    /\ pout' = << ApplyReplaces(RewriteText(pin.s[2]), pin.s[1]) >>
    /\ UNCHANGED << mode, moduleVars, aliasVars, callPc, callId, tasks, changed,
                    output, build, pin >>

GetFileNameCall ==
    /\ mode = "pure"
    /\ pin.fn = "getFileName"
    /\ pout = << >>
    /\ pout' = << getFileName(UrlOf(pin)) >>
    /\ UNCHANGED << mode, moduleVars, aliasVars, callPc, callId, tasks, changed,
                    output, build, pin >>

GetTargetFormatCall ==
    /\ mode = "pure"
    /\ pin.fn = "getTargetFormat"
    /\ pout = << >>
    /\ pout' = << getTargetFormat(FileOf(pin)) >>
    /\ UNCHANGED << mode, moduleVars, aliasVars, callPc, callId, tasks, changed,
                    output, build, pin >>

ParseCall ==
    /\ mode = "pure"
    /\ pin.fn = "parseUnicodeRange"
    /\ pout = << >>
    /\ pout' = << parseUnicodeRange(RangeValue(pin)) >>
    /\ UNCHANGED << mode, moduleVars, aliasVars, callPc, callId, tasks, changed,
                    output, build, pin >>

RangStrCall ==
    /\ mode = "pure"
    /\ pin.fn = "rangStr"
    /\ pout = << >>
    /\ pout' = << rangStr(pin.s) >>
    /\ UNCHANGED << mode, moduleVars, aliasVars, callPc, callId, tasks, changed,
                    output, build, pin >>

PureInit ==
    /\ mode = "pure"
    /\ assetCache = << >>
    /\ replaces = << >>
    /\ results = << >>
    /\ fontSet = {}
    /\ emitted = {}
    /\ fontMap = << >>
    /\ alias = << >>
    /\ resolvedCss = {}
    /\ files = << >>
    /\ cacheDirExists = FALSE
    /\ CallsInit
    /\ build = << >>
    /\ pin \in ParseInputs \cup RangStrInputs \cup FileNameInputs
               \cup TargetFormatInputs \cup RewriteInputs
    /\ pout = << >>

PureNext ==
    \/ ParseCall
    \/ RangStrCall
    \/ GetFileNameCall
    \/ GetTargetFormatCall
    \/ RewriteCall

PureSpec == PureInit /\ [][PureNext]_vars

(***************************************************************************)
(* A second build in the same process: fontUnicodeRangePlugin() is called  *)
(* again (main.ts 28-38).  The new instance has its own fontSet, and the   *)
(* host's new build has no emitted asset yet; assetCache, replaces and     *)
(* results are module-level constants of main.ts (21-26) and stay as they  *)
(* are.                                                                     *)
(***************************************************************************)
\* the build is over: a call has been made, none is running, no task is left
BuildOver ==
    /\ \E c \in Calls : callPc[c] = "returned"
    /\ \A c \in Calls : callPc[c] # "running"
    /\ \A ck \in AllTasks : Pc(ck) \in {"done", "failed"}

NewInstance ==
    /\ mode = "transform"
    /\ BuildOver
    /\ fontSet' = {}
    /\ emitted' = {}
    /\ callPc' = [c \in Calls |-> "idle"]
    /\ callId' = [c \in Calls |-> Null]
    /\ tasks' = [c \in Calls |-> << >>]
    /\ changed' = [c \in Calls |-> FALSE]
    /\ output' = [c \in Calls |-> << >>]
    /\ UNCHANGED << mode, assetCache, replaces, results, aliasVars, pureVars >>

RebuildNext == TransformNext \/ NewInstance

RebuildSpec == TransformInit /\ [][RebuildNext]_vars

(***************************************************************************)
(* Properties of the pure helpers (PureSpec).                              *)
(***************************************************************************)
DigitValue(d) == CASE d = "0" -> 0 [] d = "a" -> 10 [] d = "F" -> 15

RECURSIVE Numeral(_)
\* the number a hex numeral over HexDigits denotes
Numeral(h) ==
    IF h = << >> THEN 0
    ELSE 16 * Numeral(SubSeq(h, 1, Len(h) - 1)) + DigitValue(h[Len(h)])

\* the range a well-formed token stands for
TokenRange(t) ==
    CASE t.kind = "single" ->
             [start |-> Numeral(t.a), end |-> Numeral(t.a)]
      [] t.kind = "range" ->
             [start |-> Numeral(t.a), end |-> Numeral(t.b)]
      [] t.kind = "wildcard" ->
             [start |-> Numeral(t.a \o [i \in 1..Len(t.b) |-> "0"]),
              end   |-> Numeral(t.a \o [i \in 1..Len(t.b) |-> "F"])]

WellFormed(t) == t.kind # "bad"

Parsed == mode = "pure" /\ pin.fn = "parseUnicodeRange" /\ pout # << >>

Expanded == mode = "pure" /\ pin.fn = "rangStr" /\ pout # << >>

\* C6: rangStr expands every range {start, end} to all code points c with
\* start <= c <= end, the end code point included; a range with start = end
\* contributes that code point (stated for code points that are one UTF-16
\* code unit)
C6_RangStrInclusiveEnd ==
    (/\ Expanded
     /\ \A i \in 1..Len(pin.s) :
            pin.s[i].start # NaN /\ pin.s[i].end < 65536)
    => Range(pout[1]) =
           UNION {pin.s[i].start..pin.s[i].end : i \in 1..Len(pin.s)}

\* C7: for a value whose tokens are all well-formed, parseUnicodeRange
\* returns one range per token, in token order: for a wildcard token the
\* range from the numeral with every ? replaced by 0 to the numeral with
\* every ? replaced by F, for U+a-b the range {a, b}, for U+a the range {a, a}
C7_WellFormedTokensParsed ==
    (Parsed /\ \A i \in 1..Len(pin.toks) : WellFormed(pin.toks[i]))
    => pout[1] = [i \in 1..Len(pin.toks) |-> TokenRange(pin.toks[i])]

\* a value of a wildcard token and an explicit range has been parsed
C7_Witness ==
    /\ Parsed
    /\ Len(pin.toks) = 2
    /\ pin.toks[1].kind = "wildcard"
    /\ pin.toks[1].a # << >>
    /\ pin.toks[2].kind = "range"
    /\ pin.sep = <<" ", ",", " ">>
    /\ Len(pout[1]) = 2
    /\ pout[1][1].start < pout[1][1].end

\* the ranges of the well-formed tokens of a value, in token order
WellFormedRanges(toks) ==
    LET wf == SelectSeq(toks, WellFormed)
    IN  [i \in 1..Len(wf) |-> TokenRange(wf[i])]

\* C8: parseUnicodeRange drops every token that matches none of the three
\* forms: it contributes no range to the result, and the well-formed tokens
\* of the same value are still returned
C8_MalformedTokensDropped ==
    Parsed => pout[1] = WellFormedRanges(pin.toks)

(***************************************************************************)
(* Properties of the transform variant (Spec).                             *)
(***************************************************************************)
\* C2: in the transform variant, in every interleaving of concurrent
\* transform calls on one plugin instance, subsetFont is invoked at most
\* once per FontIdentity (getFileName result)
C2_SubsetOncePerName ==
    mode = "transform" =>
        \A ck, dk \in AllTasks :
            (Invoked(ck) /\ Invoked(dk) /\ Name(ck) = Name(dk)) => ck = dk

\* two calls are under way, one has handed a font to subsetFont and waits
\* for it, the other has asked for the same name and was turned away
C2_Witness ==
    /\ mode = "transform"
    /\ \E ck, dk \in AllTasks :
        /\ ck[1] # dk[1]
        /\ callPc[ck[1]] = "running"
        /\ Name(ck) = Name(dk)
        /\ Invoked(ck) /\ Pc(ck) = "subset"
        /\ ~Invoked(dk) /\ Pc(dk) = "done"

\* the calls that have returned with every task done
Completed(c) == callPc[c] = "returned" /\ tasks[c] # << >> /\ AllDone(c)

\* C3: in the transform variant, when two stylesheets reference the same
\* font URL and its subset is accepted, both stylesheets' transform results
\* have that reference rewritten to the same output location, in every
\* interleaving
C3_BothStylesheetsRewritten ==
    mode = "transform" =>
        \A ck, dk \in AllTasks :
            (/\ callId[ck[1]] # callId[dk[1]]
             /\ Completed(ck[1]) /\ Completed(dk[1])
             /\ Decl(ck).url = Decl(dk).url
             /\ MapHas(replaces, Decl(ck).url))
            => /\ output[ck[1]] # << >>
               /\ output[dk[1]] # << >>
               /\ Contains(output[ck[1]][1], MapGet(replaces, Decl(ck).url))
               /\ Contains(output[dk[1]][1], MapGet(replaces, Decl(ck).url))

\* C9: applying the inline substitution to text that has already been
\* rewritten yields the same text, for every replaces table the transform
\* variant produces and every stylesheet of the build
C9_RewriteIdempotent ==
    mode = "transform" =>
        \A id \in DOMAIN build :
            LET once == ApplyReplaces(build[id].code, replaces)
            IN  ApplyReplaces(once, replaces) = once

(***************************************************************************)
(* Properties of the alias variant (AliasSpec).                            *)
(***************************************************************************)
\* C1: in the alias variant, in every interleaving of concurrent requests
\* for the same FontIdentity (same getFileName result), issued by two
\* @font-face rules of one stylesheet or by two stylesheets, subsetFont is
\* invoked once for that identity
C1_AliasSubsetOnce ==
    mode = "alias" =>
        \A ck, dk \in AllTasks :
            (Invoked(ck) /\ Invoked(dk) /\ Name(ck) = Name(dk)) => ck = dk

\* C4: in the alias variant the subset file of an identity, once written,
\* is never overwritten by a later or concurrent declaration of the same
\* identity
C4_SubsetFileNeverOverwritten ==
    [][mode = "alias" =>
          \A f \in MapKeys(files) : MapGet(files', f) = MapGet(files, f)]_vars

\* C10: in the alias variant, after any interleaving of resolveId calls the
\* alias table holds at most one entry per original URL (find)
C10_AliasOncePerUrl ==
    mode = "alias" =>
        \A i, j \in 1..Len(alias) : alias[i].find = alias[j].find => i = j

(***************************************************************************)
(* The size gate in both variants (BothSpec).                              *)
(***************************************************************************)
\* the task has called subsetFont, got its answer and passed the gate
Finished(ck) == Invoked(ck) /\ Pc(ck) = "done"

SubsetOf(ck) == subsetFont(Args(ck).id, Args(ck).text, Args(ck).targetFormat)

\* the subset's byte length is strictly smaller than the original's
Smaller(ck) == DataLen(SubsetOf(ck)) < FontLen(Args(ck).id)

EmittedAsset(ck) ==
    [name |-> Name(ck), fileName |-> TransformFileName(Name(ck)),
     source |-> SubsetOf(ck)]

\* the transform variant has registered the replacement of the task's font
TransformRegistered(ck) ==
    /\ MapHas(replaces, Decl(ck).url)
    /\ MapGet(replaces, Decl(ck).url) = TransformFileName(Name(ck))
    /\ EmittedAsset(ck) \in emitted
    /\ MapHas(assetCache, Decl(ck).url)
    /\ MapGet(assetCache, Decl(ck).url).fileName = TransformFileName(Name(ck))

\* the transform variant holds no trace of a replacement of the task's font
TransformUnregistered(ck) ==
    /\ ~MapHas(replaces, Decl(ck).url)
    /\ \A e \in emitted : e.name # Name(ck)
    /\ MapHas(assetCache, Decl(ck).url)
    /\ MapGet(assetCache, Decl(ck).url).fileName = Null

\* the alias variant has registered the replacement of the task's font
AliasRegistered(ck) ==
    /\ MapHas(files, AliasFileName(Name(ck)))
    /\ MapHas(fontMap, Name(ck))
    /\ MapGet(fontMap, Name(ck)) = AliasFileName(Name(ck))
    /\ \E i \in 1..Len(alias) :
           /\ alias[i].find = Decl(ck).url
           /\ alias[i].replacement = AliasFileName(Name(ck))

\* the finished computations of strictly smaller subsets
Backing == {ck \in AllTasks : Finished(ck) /\ Smaller(ck)}

RewrittenTo(c) ==
    {MapGet(replaces, url) : url \in
        {u \in MapKeys(replaces) : Contains(output[c][1], MapGet(replaces, u))}}

\* C11: a plugin instance created for a new build observes no entry of an
\* earlier instance, so every reference the transform variant rewrites
\* points at an asset emitted (emitFile) during the current build
C11_RewrittenAssetsEmitted ==
    mode = "transform" =>
        \A c \in Calls :
            output[c] # << >> =>
                \A f \in RewrittenTo(c) : \E e \in emitted : e.fileName = f

(***************************************************************************)
(* Failure and completion of a transform call (Spec).                      *)
(***************************************************************************)
\* C12: in the transform variant, when loading or subsetting one font of a
\* stylesheet fails, the other fonts of the same stylesheet whose subsets
\* were accepted are still rewritten in that stylesheet's transform result
C12_FailureContained ==
    mode = "transform" =>
        \A ck \in AllTasks :
            (/\ callPc[ck[1]] = "returned"
             /\ Failed(ck[1])
             /\ Finished(ck) /\ Smaller(ck))
            => /\ output[ck[1]] # << >>
               /\ Contains(output[ck[1]][1], TransformFileName(Name(ck)))

(***************************************************************************)
(* Failure and reuse in the alias variant (AliasSpec).                     *)
(***************************************************************************)
\* the identities for which subsetFont has failed
FailedNames ==
    {Name(ck) : ck \in {dk \in AllTasks :
                            Pc(dk) = "failed" /\ Corrupt(Args(dk).id)}}

\* the entries of the alias table for the identity
AliasEntries(table, name) ==
    {i \in 1..Len(table) : getFileName(table[i].find) = name}

\* C13: in the alias variant, once loading or subsetting has failed for a
\* FontIdentity, no alias entry and no fontMap entry is ever added for it
\* afterwards
C13_NoEntryAfterFailure ==
    [][mode = "alias" =>
          \A name \in FailedNames :
              /\ MapHas(fontMap', name) => MapHas(fontMap, name)
              /\ AliasEntries(alias', name) = AliasEntries(alias, name)]_vars

(***************************************************************************)
(* Properties of getFileName and getTargetFormat (PureSpec).               *)
(***************************************************************************)
Named == mode = "pure" /\ pin.fn = "getFileName" /\ pout # << >>

\* C14: getFileName yields the same FontIdentity for URLs that differ only
\* in their directory prefix, in a hash/version segment between the base
\* name and the final extension, or in a trailing query string or hash
\* fragment: the identity of the URL is that of base name and extension
C14_FileNameStable ==
    Named => pout[1] = getFileName(pin.s[2] \o <<".">> \o pin.s[4])

Formatted == mode = "pure" /\ pin.fn = "getTargetFormat" /\ pout # << >>

\* the target formats the mapping allows for a lower-cased extension
FormatsFor(ext) ==
    CASE ext = <<".", "w", "o", "f", "f">> -> {"woff"}
      [] ext = <<".", "w", "o", "f", "f", "2">> -> {"woff2"}
      [] ext = <<".", "t", "t", "f">> -> {"truetype"}
      [] ext = <<".", "o", "t", "f">> -> {"opentype", "sfnt"}
      [] ext = <<".", "e", "o", "t">> -> {"eot"}
      [] OTHER -> {"woff2"}

\* C15: getTargetFormat maps the resolved file's extension, whatever its
\* case, as .woff to woff, .woff2 to woff2, .ttf to truetype, .otf to
\* opentype or sfnt, .eot to eot, and every other extension to woff2
C15_TargetFormatMapping ==
    Formatted => pout[1] \in FormatsFor(toLowerCase(pin.s[3]))

\* C16: a transform call produces its result only after every font task it
\* started has finished, including when one of the tasks fails: no task of
\* a returned call is still running
C16_ReturnsAfterAllTasks ==
    mode = "transform" =>
        \A ck \in AllTasks :
            callPc[ck[1]] = "returned" => Pc(ck) \in {"done", "failed"}

(***************************************************************************)
(* Further properties of parseUnicodeRange and rangStr (PureSpec).         *)
(***************************************************************************)
\* C17: every range returned by parseUnicodeRange satisfies
\* 0 <= start <= end, for every input value; an explicit-range token U+a-b
\* is returned as a range only when a <= b
C17_RangesOrdered ==
    Parsed =>
        \A i \in 1..Len(pout[1]) :
            0 <= pout[1][i].start /\ pout[1][i].start <= pout[1][i].end

(***************************************************************************)
(* Reuse of decisions in the alias variant (AliasSpec).                    *)
(***************************************************************************)
\* the identities for which a request has completed, accepted or rejected
DecidedNames == {Name(ck) : ck \in {dk \in AllTasks : Finished(dk)}}

\* C18: in the alias variant, once a request for a FontIdentity has
\* completed, whether its subset was accepted or rejected by the size gate,
\* no later request for that identity invokes subsetFont again
C18_DecisionReused ==
    [][mode = "alias" =>
          \A dk \in AllTasks :
              (Name(dk) \in DecidedNames /\ ~Invoked(dk)) => ~Invoked(dk)']_vars

(***************************************************************************)
(* The frame of the rewrite (PureSpec).                                    *)
(***************************************************************************)
Rewritten == mode = "pure" /\ pin.fn = "rewrite" /\ pout # << >>

\* the URL after the rewrite: its output location when it is a key of the
\* table, the URL itself otherwise
Relocated(url, reps) == IF MapHas(reps, url) THEN MapGet(reps, url) ELSE url

C20_NoCodePointOutsideRanges ==
    (/\ Expanded
     /\ \A i \in 1..Len(pin.s) : pin.s[i].start # NaN)
    => \A j \in 1..Len(pout[1]) :
           \E i \in 1..Len(pin.s) :
               pin.s[i].start <= pout[1][j] /\ pout[1][j] <= pin.s[i].end

=============================================================================
